---- MODULE Spec2Model ----
(***************************************************************************)
(* Model of preisrechner.py: the pricing engine (round_money, compute_cost)*)
(* and the Streamlit script around it (widgets, table/CSV, presets).       *)
(*                                                                         *)
(* Numbers.  The program computes with Python floats.  They are modelled   *)
(* as exact rationals in lowest terms, [n |-> numerator, d |-> denominator]*)
(* with d > 0, so that equal numbers are equal records.  For the amounts   *)
(* the model draws (decimal inputs, magnitudes far below 10^6) a double    *)
(* differs from the rational by less than 10^-12, which is three orders    *)
(* below the 1e-9 that round_money adds; the one place where the binary    *)
(* representation decides the result, a value that sits exactly on a       *)
(* rounding tie when round() sees it, is modelled as a choice between the  *)
(* two neighbours (see RoundUnits).  TLC's integers are 32 bit and TLC     *)
(* stops with an error on overflow, so every run that ends normally has    *)
(* computed every number exactly.                                          *)
(***************************************************************************)
EXTENDS Integers, Sequences, FiniteSets, TLC

VARIABLES
  arg,            \* round_money driver: the argument x
  rounded,        \* round_money driver: the returned value, None before the call
  inputs,         \* the PricingInputs handed to compute_cost
  breakdown,      \* compute_cost's first result: sequence of <<label, value>>
  meta,           \* compute_cost's second result
  locals,         \* compute_cost's full-precision locals of the last call
  inputs2,        \* second call of the monotonicity driver
  breakdown2,
  locals2,
  widgets,        \* Streamlit: the value of every sidebar widget
  session_state,  \* Streamlit: st.session_state, user keys only
  df,             \* the table shown by st.dataframe
  csv,            \* df.to_csv(index=False), as rows of cells
  trigger         \* the widget or button that caused the last script run

vars == <<arg, rounded, inputs, breakdown, meta, locals, inputs2, breakdown2,
          locals2, widgets, session_state, df, csv, trigger>>

\* Python's None where a rational or a record is expected, <<>> where a
\* sequence is, "none" where a string is.
None == [none |-> TRUE]

-----------------------------------------------------------------------------
(* Exact rational arithmetic standing for float arithmetic.                *)

Abs(a) == IF a < 0 THEN -a ELSE a

RECURSIVE GCD(_, _)
GCD(a, b) == IF b = 0 THEN a ELSE GCD(b, a % b)

\* n/d in lowest terms with a positive denominator.
Q(n, d) ==
  LET s == IF d < 0 THEN -1 ELSE 1
      g == GCD(Abs(n), Abs(d))
  IN  [n |-> (s * n) \div g, d |-> (s * d) \div g]

QInt(k) == [n |-> k, d |-> 1]

QNeg(a) == [n |-> -a.n, d |-> a.d]

QAdd(a, b) ==
  LET g == GCD(a.d, b.d)
  IN  Q(a.n * (b.d \div g) + b.n * (a.d \div g), (a.d \div g) * b.d)

QSub(a, b) == QAdd(a, QNeg(b))

QMul(a, b) ==
  LET g1 == GCD(Abs(a.n), b.d)
      g2 == GCD(Abs(b.n), a.d)
  IN  [n |-> (a.n \div g1) * (b.n \div g2), d |-> (a.d \div g2) * (b.d \div g1)]

\* a / k for a positive integer k.
QDivInt(a, k) == QMul(a, Q(1, k))

QLe(a, b) ==
  LET g == GCD(a.d, b.d)
  IN  a.n * (b.d \div g) <= b.n * (a.d \div g)

QLt(a, b) == QLe(a, b) /\ a # b

\* Python's max(a, b): b only when it is greater than a.
QMax(a, b) == IF QLt(a, b) THEN b ELSE a

QAbs(a) == [n |-> Abs(a.n), d |-> a.d]

QFloor(a) == a.n \div a.d

Zero == QInt(0)
Half == Q(1, 2)

RECURSIVE Pow10(_)
Pow10(k) == IF k = 0 THEN 1 ELSE 10 * Pow10(k - 1)

RECURSIVE SeqProduct(_)
\* All sequences that take their i-th element from the i-th set.
SeqProduct(ss) ==
  IF ss = <<>> THEN {<<>>}
  ELSE {<<h>> \o t : h \in Head(ss), t \in SeqProduct(Tail(ss))}

-----------------------------------------------------------------------------
(* Rounding.                                                               *)

\* The integers round() can return for whole + frac, 0 <= frac < 3/2.  Off a
\* tie it is the nearest one.  On a tie the double that round() receives is
\* the nearest double to the decimal value and lies on either side of it, so
\* round(), which rounds the double's exact value, returns either neighbour.
RoundUnits(whole, frac) ==
  IF QLt(frac, Half) THEN {whole}
  ELSE IF frac = Half THEN {whole, whole + 1}
  ELSE {whole + 1}

\* Python's round(y, ndigits): the values it can return.
py_round(y, ndigits) ==
  LET scale == Pow10(ndigits)
      u     == QMul(y, QInt(scale))
      whole == QFloor(u)
  IN  {Q(r, scale) : r \in RoundUnits(whole, QSub(u, QInt(whole)))}

\* The 1e-9 of round_money.
Epsilon == Q(1, 1000000000)

\* round(x, 2): round_money with the epsilon forgotten.
round_money_no_epsilon(x) == py_round(x, 2)

\* round(x + 0.005, 2): half a cent added where the epsilon belongs.
round_money_half_cent(x) == py_round(QAdd(x, Q(5, 1000)), 2)

\* round(x + 1e-9, 2): the values it can return.  x + 1e-9 is formed on the
\* sub-cent part of x (x = whole cents + frac): the sum is the same number,
\* and its numerator stays within TLC's integers.
round_money(x) ==
  LET u     == QMul(x, QInt(100))
      whole == QFloor(u)
      frac  == QAdd(QSub(u, QInt(whole)), QMul(Epsilon, QInt(100)))
  IN  {Q(r, 100) : r \in RoundUnits(whole, frac)}

-----------------------------------------------------------------------------
(* Driver of round_money: arguments on and around the half-cent boundaries *)
(* and the whole cents, of both signs, on a grid of 0.5e-9.                *)

MaxCents == 3
MaxOffset == 4

\* Sub-cent parts in units of 0.5e-9: 0.005 is 10^7 of them.
SubCent ==
  {0, 6000000, 14000000} \cup {10000000 + o : o \in (-MaxOffset)..MaxOffset}

RoundArgs ==
  {Q(s * (k * 20000000 + f), 2000000000) :
     s \in {-1, 1}, k \in 0..MaxCents, f \in SubCent}

\* The parts of the state a driver does not use.
AppIdle ==
  /\ widgets = None /\ session_state = None /\ df = <<>>
  /\ csv = <<>> /\ trigger = "none"

CostIdle ==
  /\ inputs = None /\ breakdown = <<>> /\ meta = None /\ locals = None

MonoIdle == inputs2 = None /\ breakdown2 = <<>> /\ locals2 = None

RoundIdle == arg = None /\ rounded = None

InitRound ==
  /\ arg \in RoundArgs
  /\ rounded = None
  /\ CostIdle /\ MonoIdle /\ AppIdle

CallRoundMoney ==
  /\ rounded = None
  /\ rounded' \in round_money(arg)
  /\ UNCHANGED <<arg, inputs, breakdown, meta, locals, inputs2, breakdown2,
                 locals2, widgets, session_state, df, csv, trigger>>

NextRound == CallRoundMoney

SpecRound == InitRound /\ [][NextRound]_vars

-----------------------------------------------------------------------------
(* The pricing engine.                                                     *)

\* The fields of the dataclass, in its order.
PricingFields ==
  <<"filament_used_g", "print_time_h", "filament_eur_per_kg",
    "electricity_eur_per_kwh", "avg_power_w", "depreciation_eur_per_h",
    "consumables_ratio", "labor_hours", "labor_rate_eur_per_h", "risk_ratio",
    "markup_ratio", "friend_discount_ratio", "packaging_shipping_eur",
    "min_fee_eur", "purge_waste_g">>

\* One operator per assignment of compute_cost.
grams_total(i) == QAdd(i.filament_used_g, i.purge_waste_g)

material_eur(grams, i) == QMul(QDivInt(grams, 1000), i.filament_eur_per_kg)

kwh(i) == QDivInt(QMul(i.avg_power_w, i.print_time_h), 1000)

energy_eur(k, i) == QMul(k, i.electricity_eur_per_kwh)

machine_eur(i) == QMul(i.print_time_h, i.depreciation_eur_per_h)

labor_eur(i) == QMul(i.labor_hours, i.labor_rate_eur_per_h)

consumables_eur(material, energy, i) ==
  QMul(QAdd(material, energy), i.consumables_ratio)

risk_buffer_eur(material, energy, machine, i) ==
  QMul(QAdd(QAdd(material, energy), machine), i.risk_ratio)

\* The subtotal re-summed from the rounded line items.
subtotal_of_rounded(material, energy, machine, labor, consumables, risk) ==
  LET r(v) == CHOOSE c \in round_money(v) : TRUE
  IN  QAdd(QAdd(QAdd(QAdd(QAdd(r(material), r(energy)), r(machine)),
                     r(labor)), r(consumables)), r(risk))

subtotal_before_markup(material, energy, machine, labor, consumables, risk) ==
  QAdd(QAdd(QAdd(QAdd(QAdd(material, energy), machine), labor), consumables),
       risk)

markup_eur(subtotal, i) == QMul(subtotal, i.markup_ratio)

pre_discount_total(subtotal, markup) == QAdd(subtotal, markup)

friend_discount_eur(pre_discount, i) == QMul(pre_discount, i.friend_discount_ratio)

\* The operands of the subtraction swapped.
total_swapped(pre_discount, friend_discount, i) ==
  QAdd(QSub(friend_discount, pre_discount), i.packaging_shipping_eur)

total(pre_discount, friend_discount, i) ==
  QAdd(QSub(pre_discount, friend_discount), i.packaging_shipping_eur)

\* The floor forgotten.
final_total_no_floor(t, i) == t

\* min written for max.
final_total_min(t, i) == IF QLt(t, i.min_fee_eur) THEN t ELSE i.min_fee_eur

final_total_eur(t, i) == QMax(t, i.min_fee_eur)

\* The full-precision locals of compute_cost.
compute_locals(i) ==
  LET grams       == grams_total(i)
      material    == material_eur(grams, i)
      k           == kwh(i)
      energy      == energy_eur(k, i)
      machine     == machine_eur(i)
      labor       == labor_eur(i)
      consumables == consumables_eur(material, energy, i)
      risk        == risk_buffer_eur(material, energy, machine, i)
      subtotal    == subtotal_before_markup(material, energy, machine, labor,
                                            consumables, risk)
      markup      == markup_eur(subtotal, i)
      pre         == pre_discount_total(subtotal, markup)
      friend      == friend_discount_eur(pre, i)
      t           == total(pre, friend, i)
  IN  [grams_total |-> grams, material_eur |-> material, kwh |-> k,
       energy_eur |-> energy, machine_eur |-> machine, labor_eur |-> labor,
       consumables_eur |-> consumables, risk_buffer_eur |-> risk,
       subtotal_before_markup |-> subtotal, markup_eur |-> markup,
       pre_discount_total |-> pre, friend_discount_eur |-> friend,
       total |-> t, final_total_eur |-> final_total_eur(t, i)]

\* The keys of the breakdown dict in insertion order.
BreakdownKeys ==
  <<"Material", "Energie", "Maschine/Verschleiß", "Arbeit",
    "Verbrauchsmaterial-Puffer", "Risiko-Puffer", "Zwischensumme",
    "Marge/Aufschlag", "Summe vor Rabatt", "Freundschaftsrabatt",
    "Verpackung/Versand", "Empfohlener Preis">>

\* The quantity each key's value is round_money of.
BreakdownAmounts(v, i) ==
  <<v.material_eur, v.energy_eur, v.machine_eur, v.labor_eur,
    v.consumables_eur, v.risk_buffer_eur, v.subtotal_before_markup,
    v.markup_eur, v.pre_discount_total, v.friend_discount_eur,
    i.packaging_shipping_eur, v.final_total_eur>>

\* The dict literal: the breakdowns it can evaluate to, each a sequence of
\* <<key, value>> in insertion order.
breakdown_dict(v, i) ==
  LET amounts == BreakdownAmounts(v, i)
  IN  SeqProduct([n \in 1..Len(BreakdownKeys) |->
                    {<<BreakdownKeys[n], r>> : r \in round_money(amounts[n])}])

meta_dict(v) ==
  {[kwh |-> a, filament_total_g |-> b] :
     a \in py_round(v.kwh, 3), b \in py_round(v.grams_total, 1)}

\* compute_cost(inputs): the (breakdown, meta) pairs it can return.
compute_cost(i) ==
  LET v == compute_locals(i)
  IN  {[breakdown |-> b, meta |-> m] : b \in breakdown_dict(v, i), m \in meta_dict(v)}

\* d[key] for a dict held as a sequence of <<key, value>>.
Get(d, key) == d[CHOOSE n \in 1..Len(d) : d[n][1] = key][2]

-----------------------------------------------------------------------------
(* Driver of compute_cost: one call on each record of a grid of inputs.    *)

MaxPurgeSteps == 1
PurgeStep == 5

PurgeGrams == {QInt(PurgeStep * n) : n \in 0..MaxPurgeSteps}

\* The scenario of the documentation: the sidebar's initial values.
Scenario ==
  [filament_used_g |-> QInt(100), print_time_h |-> QInt(6),
   filament_eur_per_kg |-> QInt(22), electricity_eur_per_kwh |-> Q(25, 100),
   avg_power_w |-> QInt(80), depreciation_eur_per_h |-> Q(5, 10),
   consumables_ratio |-> Q(5, 100), labor_hours |-> QInt(1),
   labor_rate_eur_per_h |-> QInt(30), risk_ratio |-> Q(10, 100),
   markup_ratio |-> Zero, friend_discount_ratio |-> Q(20, 100),
   packaging_shipping_eur |-> Zero, min_fee_eur |-> QInt(10),
   purge_waste_g |-> Zero]

ScenarioFullDiscount == [Scenario EXCEPT !.friend_discount_ratio = QInt(1)]

MinFees == {QInt(-1), Zero, QInt(10), Q(10004, 1000)}

ZeroBaseline(fee) ==
  [f \in {PricingFields[n] : n \in 1..Len(PricingFields)} |->
     IF f = "min_fee_eur" THEN fee ELSE Zero]

\* Zero and non-zero quantities, fees that are and are not whole cents (one
\* negative), discounts up to and above 1.
CostGrid ==
  [filament_used_g : {Zero, QInt(100), QInt(335)},
   print_time_h : {Zero, QInt(6), Q(75, 10)},
   filament_eur_per_kg : {QInt(22), Q(265, 10)},
   electricity_eur_per_kwh : {Q(25, 100)},
   avg_power_w : {QInt(80)},
   depreciation_eur_per_h : {Q(5, 10)},
   consumables_ratio : {Q(5, 100)},
   labor_hours : {Zero, QInt(1)},
   labor_rate_eur_per_h : {QInt(30)},
   risk_ratio : {Q(10, 100), Q(12, 100)},
   markup_ratio : {Zero, Q(15, 100)},
   friend_discount_ratio : {Zero, Q(20, 100), QInt(1), Q(15, 10)},
   packaging_shipping_eur : {Zero, Q(45, 10)},
   min_fee_eur : MinFees,
   purge_waste_g : PurgeGrams]

CostInputs == CostGrid \cup {ZeroBaseline(fee) : fee \in MinFees}

InitCost ==
  /\ inputs \in CostInputs
  /\ breakdown = <<>> /\ meta = None /\ locals = None
  /\ RoundIdle /\ MonoIdle /\ AppIdle

CallComputeCost ==
  /\ breakdown = <<>>
  /\ \E out \in compute_cost(inputs) :
       /\ breakdown' = out.breakdown
       /\ meta' = out.meta
  /\ locals' = compute_locals(inputs)
  /\ UNCHANGED <<arg, rounded, inputs, inputs2, breakdown2, locals2, widgets,
                 session_state, df, csv, trigger>>

NextCost == CallComputeCost

SpecCost == InitCost /\ [][NextCost]_vars

-----------------------------------------------------------------------------
(* Properties of compute_cost.                                             *)

Returned == breakdown # <<>>

Price == Get(breakdown, "Empfohlener Preis")

NonNegative(i) ==
  \A n \in 1..Len(PricingFields) : i[PricingFields[n]].n >= 0

WholeCents(v) == QMul(v, QInt(100)).d = 1

\* C1 as stated: for non-negative inputs the reported Empfohlener Preis is at
\* least the min_fee_eur that was passed in.
C1_PriceAtLeastMinFee ==
  (Returned /\ NonNegative(inputs)) => QLe(inputs.min_fee_eur, Price)

\* C1 amended: for non-negative inputs the reported Empfohlener Preis is at
\* least round_money(min_fee_eur), hence at least min_fee_eur itself when that
\* is a whole number of cents, and never more than half a cent below it.
C1_PriceAtLeastRoundedMinFee ==
  (Returned /\ NonNegative(inputs)) =>
    /\ \E fee \in round_money(inputs.min_fee_eur) : QLe(fee, Price)
    /\ WholeCents(inputs.min_fee_eur) => QLe(inputs.min_fee_eur, Price)
    /\ QLe(QSub(inputs.min_fee_eur, Price), Q(5, 1000))

\* The floor applies with a fee that is not whole cents: the price reported is
\* the fee rounded down.
C1_Witness ==
  /\ Returned /\ NonNegative(inputs)
  /\ QLt(locals.total, inputs.min_fee_eur)
  /\ ~WholeCents(inputs.min_fee_eur)
  /\ QLt(Price, inputs.min_fee_eur)

\* The breakdown of the documented scenario with the given recommended price.
ScenarioBreakdown(price) ==
  <<<<"Material", Q(220, 100)>>, <<"Energie", Q(12, 100)>>,
    <<"Maschine/Verschleiß", Q(300, 100)>>, <<"Arbeit", Q(3000, 100)>>,
    <<"Verbrauchsmaterial-Puffer", Q(12, 100)>>, <<"Risiko-Puffer", Q(53, 100)>>,
    <<"Zwischensumme", Q(3597, 100)>>, <<"Marge/Aufschlag", Zero>>,
    <<"Summe vor Rabatt", Q(3597, 100)>>, <<"Freundschaftsrabatt", Q(719, 100)>>,
    <<"Verpackung/Versand", Zero>>, <<"Empfohlener Preis", price>>>>

\* C2 as stated: the scenario yields the listed lines with Empfohlener Preis
\* 28.78 and meta kwh 0.48.
C2_ScenarioPrice2878 ==
  (Returned /\ inputs = Scenario) =>
    /\ breakdown = ScenarioBreakdown(Q(2878, 100))
    /\ meta.kwh = Q(48, 100)

\* C2 amended: the scenario yields the listed lines, but Empfohlener Preis is
\* 28.77 = round_money(35.968 - 7.1936), not the 28.78 = 35.97 - 7.19 of the
\* rounded lines; meta kwh is 0.48.
C2_ScenarioPrice2877 ==
  (Returned /\ inputs = Scenario) =>
    /\ breakdown = ScenarioBreakdown(Q(2877, 100))
    /\ meta.kwh = Q(48, 100)

C2_Witness ==
  /\ Returned /\ inputs = Scenario
  /\ locals.total = Q(287744, 10000)

\* C3: every breakdown entry is round_money of the full-precision quantity of
\* derivation steps 1-14 computed from the inputs alone, in the fixed key
\* order; the rounded entries are never fed back.
C3_EntriesRoundedFromFullPrecision ==
  Returned =>
    LET i    == inputs
        m    == QMul(QMul(QAdd(i.filament_used_g, i.purge_waste_g), Q(1, 1000)),
                     i.filament_eur_per_kg)
        e    == QMul(QMul(QMul(i.avg_power_w, i.print_time_h), Q(1, 1000)),
                     i.electricity_eur_per_kwh)
        ma   == QMul(i.print_time_h, i.depreciation_eur_per_h)
        l    == QMul(i.labor_hours, i.labor_rate_eur_per_h)
        c    == QMul(QAdd(m, e), i.consumables_ratio)
        r    == QMul(QAdd(m, QAdd(e, ma)), i.risk_ratio)
        s    == QAdd(m, QAdd(e, QAdd(ma, QAdd(l, QAdd(c, r)))))
        mk   == QMul(s, i.markup_ratio)
        pre  == QAdd(s, mk)
        fd   == QMul(pre, i.friend_discount_ratio)
        tot  == QAdd(QSub(pre, fd), i.packaging_shipping_eur)
        fin  == IF QLe(tot, i.min_fee_eur) THEN i.min_fee_eur ELSE tot
        full == <<m, e, ma, l, c, r, s, mk, pre, fd, i.packaging_shipping_eur, fin>>
    IN  /\ Len(breakdown) = 12
        /\ \A n \in 1..12 :
             /\ breakdown[n][1] = BreakdownKeys[n]
             /\ breakdown[n][2] \in round_money(full[n])

\* The rounded line items do not add up to the rounded Zwischensumme.
C3_Witness ==
  /\ Returned
  /\ QAdd(breakdown[1][2], QAdd(breakdown[2][2], QAdd(breakdown[3][2],
       QAdd(breakdown[4][2], QAdd(breakdown[5][2], breakdown[6][2])))))
       # Get(breakdown, "Zwischensumme")

\* C4: in the scenario with friend_discount_ratio = 1.0 the pre-floor total is
\* <= 0 and Empfohlener Preis equals min_fee_eur exactly.
C4_FullDiscountHitsFloor ==
  (Returned /\ inputs = ScenarioFullDiscount) =>
    /\ QLe(locals.total, Zero)
    /\ Price = inputs.min_fee_eur

C4_Witness ==
  /\ Returned /\ inputs = ScenarioFullDiscount
  /\ locals.friend_discount_eur = locals.pre_discount_total
  /\ QLt(Zero, locals.pre_discount_total)

\* C6: for non-negative inputs all 12 breakdown values are non-negative,
\* Freundschaftsrabatt as stored included.
C6_BreakdownNonNegative ==
  (Returned /\ NonNegative(inputs)) =>
    /\ Len(breakdown) = 12
    /\ \A n \in 1..Len(breakdown) : QLe(Zero, breakdown[n][2])

\* Non-negative inputs whose pre-floor total is negative.
C6_Witness ==
  /\ Returned /\ NonNegative(inputs)
  /\ QLt(locals.total, Zero)
  /\ QLt(Zero, Get(breakdown, "Freundschaftsrabatt"))

\* C8: with every quantity and rate 0 and min_fee_eur = 10.0 every breakdown
\* line is exactly 0 except Empfohlener Preis, which is 10.0.
C8_ZeroBaseline ==
  (Returned /\ inputs = ZeroBaseline(QInt(10))) =>
    /\ Len(breakdown) = 12
    /\ \A n \in 1..Len(breakdown) :
         breakdown[n][2] = IF breakdown[n][1] = "Empfohlener Preis"
                           THEN QInt(10) ELSE Zero

C8_Witness ==
  /\ Returned /\ inputs = ZeroBaseline(QInt(10))
  /\ locals.total = Zero /\ locals.final_total_eur = QInt(10)

-----------------------------------------------------------------------------
(* Properties of round_money.                                              *)

CentBelow(v) == Q(QFloor(QMul(v, QInt(100))), 100)

CentAbove(v) == Q(QFloor(QMul(v, QInt(100))) + 1, 100)

\* How far v lies below the half-cent boundary of its cent interval.
BelowBoundary(v) == QSub(QAdd(CentBelow(v), Q(5, 1000)), v)

OnHalfCent(v) == BelowBoundary(v) = Zero

\* C7 as stated: an argument exactly on a half-cent boundary goes to the cent
\* farther from zero, whatever its sign, and any other argument to the nearest
\* cent.
C7_HalfAwayFromZero ==
  rounded # None =>
    IF OnHalfCent(arg)
    THEN rounded = (IF arg.n > 0 THEN CentAbove(arg) ELSE CentBelow(arg))
    ELSE QLt(QAbs(QSub(rounded, arg)), Q(5, 1000))

\* C7 amended: round_money(x) is the cent nearest to x + 1e-9.  An x exactly on
\* a half-cent boundary goes to the cent above it (away from zero for x > 0,
\* towards zero for x < 0); so does an x less than 1e-9 below a boundary; an x
\* exactly 1e-9 below one goes to either neighbour; every other x goes to its
\* nearest cent.
C7_NearestAfterEpsilon ==
  rounded # None =>
    LET gap == BelowBoundary(arg)
    IN  /\ QLt(gap, Epsilon) /\ QLe(Zero, gap) => rounded = CentAbove(arg)
        /\ gap = Epsilon => rounded \in {CentBelow(arg), CentAbove(arg)}
        /\ QLt(Epsilon, gap) => rounded = CentBelow(arg)
        /\ QLt(gap, Zero) => rounded = CentAbove(arg)
        /\ (QLt(Epsilon, gap) \/ QLt(gap, Zero)) =>
             QLt(QAbs(QSub(rounded, arg)), Q(5, 1000))

\* A negative argument on a half-cent boundary, rounded towards zero.
C7_Witness ==
  /\ rounded # None
  /\ OnHalfCent(arg) /\ arg.n < 0
  /\ rounded = CentAbove(arg)
  /\ QLt(QAbs(rounded), QAbs(arg))

-----------------------------------------------------------------------------
(* Driver of the monotonicity property: compute_cost on two records that   *)
(* differ in filament_used_g only.  The grid holds negative values and     *)
(* ratios above 1, which compute_cost accepts unvalidated.                 *)

MonoGrams == {Zero, QInt(100), QInt(335)}

MonoGrid ==
  [filament_used_g : MonoGrams,
   print_time_h : {QInt(6)},
   filament_eur_per_kg : {QInt(-22), Zero, QInt(22), Q(265, 10)},
   electricity_eur_per_kwh : {Q(25, 100)},
   avg_power_w : {QInt(80)},
   depreciation_eur_per_h : {Q(5, 10)},
   consumables_ratio : {Q(5, 100), QInt(-2)},
   labor_hours : {QInt(1)},
   labor_rate_eur_per_h : {QInt(30), QInt(-30)},
   risk_ratio : {Q(10, 100)},
   markup_ratio : {Zero, Q(15, 100), QInt(-2)},
   friend_discount_ratio : {Zero, Q(20, 100), QInt(1), Q(15, 10)},
   packaging_shipping_eur : {Zero, QInt(-5)},
   min_fee_eur : {QInt(10)},
   purge_waste_g : PurgeGrams]

InitMono ==
  /\ inputs \in MonoGrid
  /\ inputs2 \in {[inputs EXCEPT !.filament_used_g = g] :
                    g \in {h \in MonoGrams : QLe(inputs.filament_used_g, h)}}
  /\ breakdown = <<>> /\ meta = None /\ locals = None
  /\ breakdown2 = <<>> /\ locals2 = None
  /\ RoundIdle /\ AppIdle

CallFirst ==
  /\ breakdown = <<>>
  /\ \E out \in compute_cost(inputs) :
       /\ breakdown' = out.breakdown
       /\ meta' = out.meta
  /\ locals' = compute_locals(inputs)
  /\ UNCHANGED <<arg, rounded, inputs, inputs2, breakdown2, locals2, widgets,
                 session_state, df, csv, trigger>>

CallSecond ==
  /\ breakdown # <<>> /\ breakdown2 = <<>>
  /\ \E out \in compute_cost(inputs2) : breakdown2' = out.breakdown
  /\ locals2' = compute_locals(inputs2)
  /\ UNCHANGED <<arg, rounded, inputs, breakdown, meta, locals, inputs2, widgets,
                 session_state, df, csv, trigger>>

NextMono == CallFirst \/ CallSecond

SpecMono == InitMono /\ [][NextMono]_vars

BothReturned == breakdown # <<>> /\ breakdown2 # <<>>

\* Material, Zwischensumme and the pre-floor total of the second call are not
\* below those of the first.
NotDecreased ==
  /\ QLe(Get(breakdown, "Material"), Get(breakdown2, "Material"))
  /\ QLe(Get(breakdown, "Zwischensumme"), Get(breakdown2, "Zwischensumme"))
  /\ QLe(locals.total, locals2.total)

\* C5 as stated: for two inputs that differ only in filament_used_g, g1 <= g2,
\* with nothing required of the other fields, Material, Zwischensumme and the
\* pre-floor total for g2 are not smaller than for g1.
C5_MonotoneInFilament == BothReturned => NotDecreased

\* C5 amended: the same, provided filament_eur_per_kg, consumables_ratio,
\* risk_ratio and markup_ratio are non-negative and friend_discount_ratio is
\* at most 1 (the other fields may take any value).
C5_MonotoneInFilamentForProperRatios ==
  (/\ BothReturned
   /\ inputs.filament_eur_per_kg.n >= 0
   /\ inputs.consumables_ratio.n >= 0
   /\ inputs.risk_ratio.n >= 0
   /\ inputs.markup_ratio.n >= 0
   /\ QLe(inputs.friend_discount_ratio, QInt(1)))
  => NotDecreased

\* More filament at a positive price and a partial discount: all three grow.
C5_Witness ==
  /\ BothReturned
  /\ QLt(inputs.filament_used_g, inputs2.filament_used_g)
  /\ inputs.filament_eur_per_kg.n > 0
  /\ inputs.friend_discount_ratio = Q(20, 100)
  /\ QLt(Get(breakdown, "Material"), Get(breakdown2, "Material"))
  /\ QLt(Get(breakdown, "Zwischensumme"), Get(breakdown2, "Zwischensumme"))
  /\ QLt(locals.total, locals2.total)

-----------------------------------------------------------------------------
(* The Streamlit script.  Every user interaction reruns the script from    *)
(* top to bottom; one action is one run.  No widget is created with a      *)
(* key=, so Streamlit keeps each widget's value under an id of its own and *)
(* st.session_state holds only what the script writes into it.             *)

\* The sidebar widgets' labels (the source's non-breaking hyphens and dashes
\* are written "-").
L_grams == "Filamentverbrauch (g)"
L_purge == "Purge/Abfall (g)"
L_hours == "Druckzeit (h)"
L_filament_eur_kg == "Filament €/kg"
L_kwh_price == "Strompreis €/kWh"
L_power_w == "Ø Leistung (W)"
L_depr == "Verschleiß/Abschreibung €/h"
L_consumables == "Verbrauchsmaterial-Anteil"
L_labor_h == "Arbeitszeit (h)"
L_labor_rate == "Stundensatz €/h"
L_risk == "Risiko-Anteil"
L_markup == "Marge/Aufschlag"
L_friend == "Freundschaftsrabatt"
L_pack_ship == "Verpackung/Versand (€)"
L_min_fee == "Mindestbetrag (€)"

\* Each widget's initial value (the third argument of slider/number_input).
WidgetDefaults ==
  (L_grams :> QInt(100)) @@ (L_purge :> Zero) @@ (L_hours :> QInt(6)) @@
  (L_filament_eur_kg :> QInt(22)) @@ (L_kwh_price :> Q(25, 100)) @@
  (L_power_w :> QInt(80)) @@ (L_depr :> Q(5, 10)) @@
  (L_consumables :> Q(5, 100)) @@ (L_labor_h :> QInt(1)) @@
  (L_labor_rate :> QInt(30)) @@ (L_risk :> Q(10, 100)) @@ (L_markup :> Zero) @@
  (L_friend :> Q(20, 100)) @@ (L_pack_ship :> Zero) @@ (L_min_fee :> QInt(10))

MaxGramSteps == 1
GramsStep == 10

\* The values the user moves a widget to.  Widgets not listed stay at their
\* initial value.
WidgetChoices ==
  (L_grams :> {QInt(100 + GramsStep * n) : n \in 0..MaxGramSteps}) @@
  (L_filament_eur_kg :> {QInt(22), QInt(26)}) @@
  (L_power_w :> {QInt(80), QInt(90)}) @@
  (L_risk :> {Q(10, 100), Q(12, 100)}) @@
  (L_friend :> {Zero, Q(20, 100)})

B_PLA == "PLA - Standard (Bambu)"
B_PETG == "PETG - robust"
B_ABS == "ABS/ASA - technisch"
B_EasterEgg == "Kleines Easter-Egg"

\* The dict each preset button passes to st.session_state.update.
Presets ==
  (B_PLA :> ((L_filament_eur_kg :> QInt(22)) @@ (L_kwh_price :> Q(25, 100)) @@
             (L_power_w :> QInt(80)) @@ (L_depr :> Q(5, 10)) @@
             (L_consumables :> Q(5, 100)))) @@
  (B_PETG :> ((L_filament_eur_kg :> QInt(26)) @@ (L_power_w :> QInt(90)) @@
              (L_risk :> Q(12, 100)))) @@
  (B_ABS :> ((L_filament_eur_kg :> QInt(28)) @@ (L_power_w :> QInt(110)) @@
             (L_risk :> Q(18, 100))))

PresetButtons == DOMAIN Presets

\* dict.update
update(d, other) ==
  [k \in DOMAIN d \cup DOMAIN other |-> IF k \in DOMAIN other THEN other[k] ELSE d[k]]

\* inputs = PricingInputs(...) from the widgets' return values.
PricingInputs(w) ==
  [filament_used_g |-> w[L_grams], purge_waste_g |-> w[L_purge],
   print_time_h |-> w[L_hours], filament_eur_per_kg |-> w[L_filament_eur_kg],
   electricity_eur_per_kwh |-> w[L_kwh_price], avg_power_w |-> w[L_power_w],
   depreciation_eur_per_h |-> w[L_depr], consumables_ratio |-> w[L_consumables],
   labor_hours |-> w[L_labor_h], labor_rate_eur_per_h |-> w[L_labor_rate],
   risk_ratio |-> w[L_risk], markup_ratio |-> w[L_markup],
   friend_discount_ratio |-> w[L_friend],
   packaging_shipping_eur |-> w[L_pack_ship], min_fee_eur |-> w[L_min_fee]]

\* The labels of the rows the DataFrame literal lists.
TableRows ==
  <<"Material", "Energie", "Maschine/Verschleiß", "Arbeit",
    "Verbrauchsmaterial-Puffer", "Risiko-Puffer", "Zwischensumme",
    "Marge/Aufschlag", "Summe vor Rabatt", "Freundschaftsrabatt",
    "Verpackung/Versand">>

\* The table with the discount row as stored in the breakdown.
df_table_not_negated(b) ==
  [n \in 1..Len(TableRows) |-> <<TableRows[n], Get(b, TableRows[n])>>]

\* df = pd.DataFrame([...], columns=["Posten", "€"]): its rows.
df_table(b) ==
  [n \in 1..Len(TableRows) |->
     <<TableRows[n],
       IF TableRows[n] = "Freundschaftsrabatt"
       THEN QNeg(QAbs(Get(b, TableRows[n])))
       ELSE Get(b, TableRows[n])>>]

\* str(float) of an amount of whole cents: sign, integer digits as a number,
\* and the fractional digits, at least one and without trailing zeros
\* ("30.0", "2.2", "-7.19").  The model's numbers carry no sign bit for zero:
\* the -0.0 of a zero discount is written like 0.0.
float_repr(v) ==
  LET c == Abs(QMul(v, QInt(100)).n)
  IN  [neg |-> v.n < 0, int |-> c \div 100,
       frac |-> IF c % 10 = 0 THEN <<(c % 100) \div 10>>
                ELSE <<(c % 100) \div 10, c % 10>>]

\* df.to_csv(index=False): the header and one line per row.
to_csv(rows) ==
  <<<<"Posten", "€">>>> \o
  [n \in 1..Len(rows) |-> <<rows[n][1], float_repr(rows[n][2])>>]

\* The number a CSV cell written by float_repr reads as.
csv_value(cell) ==
  LET hundredths == IF Len(cell.frac) = 1 THEN 10 * cell.frac[1]
                    ELSE 10 * cell.frac[1] + cell.frac[2]
  IN  Q((IF cell.neg THEN -1 ELSE 1) * (100 * cell.int + hundredths), 100)

\* One run of the script caused by `cause`, with the widgets at w.
ScriptRun(cause, w) ==
  /\ widgets' = w
  /\ inputs' = PricingInputs(w)
  /\ \E out \in compute_cost(PricingInputs(w)) :
       /\ breakdown' = out.breakdown
       /\ meta' = out.meta
       /\ df' = df_table(out.breakdown)
       /\ csv' = to_csv(df_table(out.breakdown))
  /\ locals' = compute_locals(PricingInputs(w))
  /\ session_state' = IF cause \in PresetButtons
                      THEN update(session_state, Presets[cause])
                      ELSE session_state
  /\ trigger' = cause
  /\ UNCHANGED <<arg, rounded, inputs2, breakdown2, locals2>>

\* The first run, when the page is opened.
InitApp ==
  /\ widgets = WidgetDefaults
  /\ inputs = PricingInputs(WidgetDefaults)
  /\ \E out \in compute_cost(PricingInputs(WidgetDefaults)) :
       /\ breakdown = out.breakdown
       /\ meta = out.meta
       /\ df = df_table(out.breakdown)
       /\ csv = to_csv(df_table(out.breakdown))
  /\ locals = compute_locals(PricingInputs(WidgetDefaults))
  /\ session_state = <<>>
  /\ trigger = "load"
  /\ RoundIdle /\ MonoIdle

ChangeWidget ==
  \E label \in DOMAIN WidgetChoices :
    \E v \in WidgetChoices[label] \ {widgets[label]} :
      ScriptRun(label, [widgets EXCEPT ![label] = v])

ClickPreset == \E b \in PresetButtons : ScriptRun(b, widgets)

ClickEasterEgg == ScriptRun(B_EasterEgg, widgets)

Next == ChangeWidget \/ ClickPreset \/ ClickEasterEgg

Spec == InitApp /\ [][Next]_vars

-----------------------------------------------------------------------------
(* Properties of the table, the CSV export and the presets.                *)

\* The value a table row carries for a breakdown entry.
RowValue(entry) ==
  IF entry[1] = "Freundschaftsrabatt" THEN QNeg(QAbs(entry[2])) ELSE entry[2]

\* The CSV lines below the header repeat the table's rows in order.
CsvMatchesTable ==
  /\ Len(csv) = Len(df) + 1
  /\ csv[1] = <<"Posten", "€">>
  /\ \A n \in 1..Len(df) :
       /\ csv[n + 1][1] = df[n][1]
       /\ csv_value(csv[n + 1][2]) = df[n][2]

\* C9 as stated: the table shown and exported as CSV has exactly one row per
\* breakdown entry, in the breakdown's order (12 entries, Material to
\* Empfohlener Preis), each with that entry's value, the Freundschaftsrabatt
\* row with the negated magnitude.
C9_OneRowPerBreakdownEntry ==
  /\ Len(df) = Len(breakdown)
  /\ \A n \in 1..Len(breakdown) :
       n <= Len(df) /\ df[n] = <<breakdown[n][1], RowValue(breakdown[n])>>
  /\ CsvMatchesTable

\* C9 amended: the table shown and exported as CSV has exactly one row for each
\* of the first 11 breakdown entries, Material to Verpackung/Versand, in the
\* breakdown's order, each with that entry's value, the Freundschaftsrabatt row
\* with the negated magnitude; Empfohlener Preis has no row.
C9_OneRowPerCostLine ==
  /\ Len(breakdown) = 12
  /\ Len(df) = 11
  /\ \A n \in 1..11 : df[n] = <<breakdown[n][1], RowValue(breakdown[n])>>
  /\ \A n \in 1..Len(df) : df[n][1] # "Empfohlener Preis"
  /\ CsvMatchesTable

\* A run with a discount: stored positive, shown and exported negative.
C9_Witness ==
  /\ trigger # "load"
  /\ QLt(Zero, Get(breakdown, "Freundschaftsrabatt"))
  /\ QLt(Get(df, "Freundschaftsrabatt"), Zero)
  /\ csv[11][2].neg

\* The input field each widget's value is passed as.
FieldOf ==
  (L_grams :> "filament_used_g") @@ (L_purge :> "purge_waste_g") @@
  (L_hours :> "print_time_h") @@ (L_filament_eur_kg :> "filament_eur_per_kg") @@
  (L_kwh_price :> "electricity_eur_per_kwh") @@ (L_power_w :> "avg_power_w") @@
  (L_depr :> "depreciation_eur_per_h") @@ (L_consumables :> "consumables_ratio") @@
  (L_labor_h :> "labor_hours") @@ (L_labor_rate :> "labor_rate_eur_per_h") @@
  (L_risk :> "risk_ratio") @@ (L_markup :> "markup_ratio") @@
  (L_friend :> "friend_discount_ratio") @@
  (L_pack_ship :> "packaging_shipping_eur") @@ (L_min_fee :> "min_fee_eur")

\* C10 as stated: applying a preset overwrites the input fields it lists and
\* leaves the others: after a run in which a preset button was pressed, the
\* next PricingInputs passed to compute_cost has the preset's value in every
\* field the preset lists (26.0, 90 and 0.12 after PETG) and the previous value
\* in every other field.  The next run is taken to be one that moves no
\* widget: the press of the Easter-egg button.
C10_PresetReachesNextInputs ==
  [][(trigger \in PresetButtons /\ trigger' = B_EasterEgg) =>
       \A label \in DOMAIN WidgetDefaults :
         inputs'[FieldOf[label]] =
           IF label \in DOMAIN Presets[trigger]
           THEN Presets[trigger][label]
           ELSE inputs[FieldOf[label]]]_vars

====
